---- MODULE Spec2Model ----
(***************************************************************************)
(* Model of VSCode-Hub (src/vscode_project_launcher.py): the background    *)
(* project scanner (ProjectScannerWorker), the launcher engine             *)
(* (VSCodeLauncher) and the single-instance startup in main().             *)
(*                                                                         *)
(* Strings that the code transforms (URIs, paths, file names) are          *)
(* sequences of one-character strings, so that decoding is computed.       *)
(* Python's None is the empty sequence.                                    *)
(***************************************************************************)
EXTENDS Integers, Sequences, FiniteSets, TLC

\* ------------------------------------------------------------------ bounds
NumProcs == 2        \* processes launched on the machine
MaxScans == 2        \* scanner threads started over the whole run
MaxEnvSteps == 1     \* changes the outside world makes to the directories
MaxCrashes == 1      \* processes that die over the whole run
MaxUris == 3         \* workspaces listed in storage.json when one scan is examined

Procs == 1..NumProcs
None == <<>>

\* --------------------------------------------------------------- strings
FilePrefix == <<"f", "i", "l", "e", ":", "/", "/", "/">>
BackslashPair == <<"\\", "\\">>
IcoSuffix == <<".", "i", "c", "o">>

HexDigits == {"0", "1", "2", "3", "4", "5", "6", "7", "8", "9",
              "A", "B", "C", "D", "E", "F", "a", "b", "c", "d", "e", "f"}

\* the %xx escapes that occur in the modelled URIs; any other escape
\* decodes to a character outside the alphabet of the modelled paths
PctChar(h1, h2) ==
    IF h1 = "6" /\ h2 = "1" THEN "a"
    ELSE IF h1 = "6" /\ h2 = "2" THEN "b"
    ELSE IF h1 = "2" /\ h2 \in {"F", "f"} THEN "/"
    ELSE IF h1 = "3" /\ h2 \in {"A", "a"} THEN ":"
    ELSE "?"

RECURSIVE unquote(_)
unquote(s) ==
    IF s = <<>> THEN <<>>
    ELSE IF s[1] = "%" /\ Len(s) >= 3 /\ s[2] \in HexDigits /\ s[3] \in HexDigits
         THEN <<PctChar(s[2], s[3])>> \o unquote(SubSeq(s, 4, Len(s)))
         ELSE <<s[1]>> \o unquote(Tail(s))

\* str.replace('/', '\\\\'): every slash becomes two backslash characters
RECURSIVE ReplaceSlash(_)
ReplaceSlash(s) ==
    IF s = <<>> THEN <<>>
    ELSE (IF s[1] = "/" THEN BackslashPair ELSE <<s[1]>>) \o ReplaceSlash(Tail(s))

StartsWith(s, pre) == Len(s) >= Len(pre) /\ SubSeq(s, 1, Len(pre)) = pre
EndsWith(s, suf) ==
    Len(s) >= Len(suf) /\ SubSeq(s, Len(s) - Len(suf) + 1, Len(s)) = suf

\* unquote(uri[8:]).replace('/', '\\\\')
DecodeUri(uri) == ReplaceSlash(unquote(SubSeq(uri, 9, Len(uri))))

\* os.path.basename: what follows the last separator
RECURSIVE basename(_)
basename(p) ==
    IF p = <<>> THEN <<>>
    ELSE IF \E i \in 1..Len(p) : p[i] \in {"\\", "/"}
         THEN basename(Tail(p))
         ELSE p

LowerChar(c) ==
    IF c = "I" THEN "i" ELSE IF c = "C" THEN "c" ELSE IF c = "O" THEN "o" ELSE c
Lower(s) == [i \in 1..Len(s) |-> LowerChar(s[i])]

JoinPath(dir, name) == dir \o <<"\\">> \o name

\* ------------------------------------------------------- modelled inputs
UriA == FilePrefix \o <<"a">>
UriB == FilePrefix \o <<"b">>
UriC == FilePrefix \o <<"c">>
UriAEsc == FilePrefix \o <<"%", "6", "1">>        \* decodes to the path of UriA
UriDE == FilePrefix \o <<"d", "/", "e">>
UriRemote == <<"s", "s", "h", ":", "/", "/", "h", "/", "a">>

PathA == <<"a">>
PathB == <<"b">>
PathC == <<"c">>
PathDE == <<"d", "\\", "\\", "e">>
Paths == {PathA, PathB, PathC, PathDE}

\* the directory whose content is examined entry by entry
UriX == FilePrefix \o <<"p">>
PathX == <<"p">>

VARIABLE entries      \* os.listdir(PathX): whether it succeeds, and the entries

\* os.listdir of each project directory
DirListing(p) ==
    IF p = PathX THEN entries.files
    ELSE IF p = PathB THEN << <<"x">>, <<"m", ".", "I", "C", "O">>, <<"i", "c", "o", "n", ".", "i", "c", "o">> >>
    ELSE IF p = PathC THEN << <<"x">>, <<"z", ".", "i", "c", "o">> >>
    ELSE << >>

\* ------------------------------------------------- ProjectScannerWorker
CommonNames == << <<"f", "a", "v", "i", "c", "o", "n", ".", "i", "c", "o">>,
                  <<"i", "c", "o", "n", ".", "i", "c", "o">>,
                  <<"l", "o", "g", "o", ".", "i", "c", "o">>,
                  <<"a", "p", "p", ".", "i", "c", "o">> >>
IconScanLimit == 50

\* the examined directory is empty
NoListing == [ok |-> TRUE, files |-> <<>>]

\* os.listdir raises (the directory cannot be read)
ListDirRaises(p) == p = PathX /\ ~entries.ok

\* os.path.exists(os.path.join(project_path, name)) on a case-insensitive volume
ExistsIn(listing, name) == \E i \in 1..Len(listing) : Lower(listing[i]) = name

\* a search that looks at every entry of the listing
find_project_icon_NoLimit(project_path) ==
    LET files == DirListing(project_path)
        named == {i \in 1..Len(CommonNames) : ExistsIn(files, CommonNames[i])}
        icos == {i \in 1..Len(files) : EndsWith(Lower(files[i]), IcoSuffix)}
        Min(S) == CHOOSE x \in S : \A y \in S : x <= y
    IN IF named # {} THEN JoinPath(project_path, CommonNames[Min(named)])
       ELSE IF ListDirRaises(project_path) THEN None
       ELSE IF icos # {} THEN JoinPath(project_path, files[Min(icos)])
       ELSE None

find_project_icon(project_path) ==
    LET files == DirListing(project_path)
        named == {i \in 1..Len(CommonNames) : ExistsIn(files, CommonNames[i])}
        n == IF Len(files) < IconScanLimit THEN Len(files) ELSE IconScanLimit
        icos == {i \in 1..n : EndsWith(Lower(files[i]), IcoSuffix)}
        Min(S) == CHOOSE x \in S : \A y \in S : x <= y
    IN IF named # {} THEN JoinPath(project_path, CommonNames[Min(named)])
       ELSE IF ListDirRaises(project_path) THEN None
       ELSE IF icos # {} THEN JoinPath(project_path, files[Min(icos)])
       ELSE None

ProjectRecord(path, mt) ==
    [path |-> path, name |-> basename(path), mtime |-> mt[path],
     icon |-> find_project_icon(path)]

\* a loop that forgets the ignore list
RECURSIVE CollectProjects_IgnoreNothing(_, _, _, _)
CollectProjects_IgnoreNothing(uris, ignored, dirSet, mt) ==
    IF uris = <<>> THEN <<>>
    ELSE LET uri == Head(uris)
             path == DecodeUri(uri)
             rest == CollectProjects_IgnoreNothing(Tail(uris), ignored, dirSet, mt)
         IN IF ~StartsWith(uri, FilePrefix) THEN rest
            ELSE IF path \in dirSet THEN <<ProjectRecord(path, mt)>> \o rest
            ELSE rest

\* the loop of run(): decode, skip ignored, keep directories, in source order
RECURSIVE CollectProjects(_, _, _, _)
CollectProjects(uris, ignored, dirSet, mt) ==
    IF uris = <<>> THEN <<>>
    ELSE LET uri == Head(uris)
             path == DecodeUri(uri)
             rest == CollectProjects(Tail(uris), ignored, dirSet, mt)
         IN IF ~StartsWith(uri, FilePrefix) THEN rest
            ELSE IF path \in ignored THEN rest
            ELSE IF path \in dirSet THEN <<ProjectRecord(path, mt)>> \o rest
            ELSE rest

\* a sort that puts a later record before the earlier ones of the same mtime
RECURSIVE InsertDesc_TiesReversed(_, _)
InsertDesc_TiesReversed(sorted, r) ==
    IF sorted = <<>> THEN <<r>>
    ELSE IF Head(sorted).mtime > r.mtime
         THEN <<Head(sorted)>> \o InsertDesc_TiesReversed(Tail(sorted), r)
         ELSE <<r>> \o sorted

\* list.sort(key=mtime, reverse=True): stable, descending
RECURSIVE InsertDesc(_, _)
InsertDesc(sorted, r) ==
    IF sorted = <<>> THEN <<r>>
    ELSE IF Head(sorted).mtime >= r.mtime
         THEN <<Head(sorted)>> \o InsertDesc(Tail(sorted), r)
         ELSE <<r>> \o sorted

RECURSIVE SortByMtimeDesc(_)
SortByMtimeDesc(recs) ==
    IF recs = <<>> THEN <<>>
    ELSE InsertDesc(SortByMtimeDesc(SubSeq(recs, 1, Len(recs) - 1)), recs[Len(recs)])

PathsOf(snapshot) == [i \in 1..Len(snapshot) |-> snapshot[i].path]

Range(f) == {f[i] : i \in DOMAIN f}
SymDiff(A, B) == (A \ B) \cup (B \ A)

\* storage.json of the three installation variants, first existing one wins
Missing == [kind |-> "missing"]
Corrupt == [kind |-> "corrupt"]
Listed(uris) == [kind |-> "list", uris |-> uris]

StoragePath(st) ==
    IF \E i \in 1..Len(st) : st[i].kind # "missing"
    THEN CHOOSE i \in 1..Len(st) : st[i].kind # "missing" /\ \A j \in 1..(i-1) : st[j].kind = "missing"
    ELSE 0

\* ------------------------------------------------ find_vscode_executable
NoExe == ""
ExeLocal == "LOCALAPPDATA/Programs/Microsoft VS Code/Code.exe"
ExeLocalCmd == "LOCALAPPDATA/Programs/Microsoft VS Code/bin/code.cmd"
ExePf == "ProgramFiles/Microsoft VS Code/Code.exe"
ExePfCmd == "ProgramFiles/Microsoft VS Code/bin/code.cmd"
ExePf86 == "ProgramFiles(x86)/Microsoft VS Code/Code.exe"
ExeOnPath == "PATH/code.cmd"
HasProgramFilesX86 == TRUE
possible_paths ==
    <<ExeLocal, ExeLocalCmd, ExePf, ExePfCmd>> \o
    (IF HasProgramFilesX86 THEN <<ExePf86>> ELSE <<>>)

NoConfig == [kind |-> "missing"]
CorruptConfig == [kind |-> "corrupt"]
Config(path) == [kind |-> "config", vscode_path |-> path]

\* the files an executable can be found at
ExeFiles == Range(possible_paths) \cup {ExeOnPath}

\* a lookup that probes the install locations before it looks at the config
find_vscode_executable_ProbesFirst(config, onDisk, whereOut) ==
    LET hits == {i \in 1..Len(possible_paths) : possible_paths[i] \in onDisk}
        first == CHOOSE i \in hits : \A j \in hits : i <= j
        found == IF hits # {} THEN possible_paths[first]
                 ELSE IF config.kind = "config" /\ config.vscode_path # NoExe
                         /\ config.vscode_path \in onDisk THEN config.vscode_path
                 ELSE IF whereOut # NoExe /\ whereOut \in onDisk THEN whereOut
                 ELSE NoExe
    IN [path |-> found, config |-> IF found # NoExe THEN Config(found) ELSE config]

\* returns the path found (or NoExe) and the content of launcher_config.json
\* after the call; whereOut is the first line printed by `where code`
find_vscode_executable(config, onDisk, whereOut) ==
    IF config.kind = "config" /\ config.vscode_path # NoExe /\ config.vscode_path \in onDisk
    THEN [path |-> config.vscode_path, config |-> config]
    ELSE LET hits == {i \in 1..Len(possible_paths) : possible_paths[i] \in onDisk}
             first == CHOOSE i \in hits : \A j \in hits : i <= j
             found == IF hits # {} THEN possible_paths[first]
                      ELSE IF whereOut # NoExe /\ whereOut \in onDisk THEN whereOut
                      ELSE NoExe
         IN [path |-> found, config |-> IF found # NoExe THEN Config(found) ELSE config]

\* ------------------------------------------------------------ cache file
\* size counts the characters json.dump writes for a snapshot
RECURSIVE EscapedLen(_)
EscapedLen(str) ==
    IF str = <<>> THEN 0
    ELSE (IF str[1] = "\\" THEN 2 ELSE 1) + EscapedLen(Tail(str))

RecordSize(r) ==
    41 + (EscapedLen(r.path) + 2) + (EscapedLen(r.name) + 2) + 5
       + (IF r.icon = None THEN 4 ELSE EscapedLen(r.icon) + 2)

RECURSIVE JsonSize(_)
JsonSize(snapshot) ==
    IF snapshot = <<>> THEN 2
    ELSE RecordSize(Head(snapshot)) + (IF Len(snapshot) > 1 THEN 2 ELSE 0)
         + JsonSize(Tail(snapshot))

NoFile == [kind |-> "missing", data |-> <<>>, size |-> 0]
Truncated == [kind |-> "partial", data |-> <<>>, size |-> 0]
Saved(snapshot) == [kind |-> "snapshot", data |-> snapshot, size |-> JsonSize(snapshot)]

\* open(CACHE_FILE, 'w'): the file is created or cut to length zero
OpenForWrite(file) == Truncated

\* json.dump(final_projects, f) and close: the text is written from offset
\* zero of whatever the file holds by then; a longer text another writer put
\* there in the meantime keeps its tail
DumpTo(file, snapshot) ==
    IF file.size > JsonSize(snapshot)
    THEN [kind |-> "partial", data |-> <<>>, size |-> file.size]
    ELSE Saved(snapshot)

\* a load that lets the exception of json.load escape
load_from_cache_Raising(file, current) ==
    IF file.kind = "missing" THEN [projects_data |-> current, raised |-> FALSE]
    ELSE IF file.kind = "snapshot" THEN [projects_data |-> file.data, raised |-> FALSE]
    ELSE [projects_data |-> current, raised |-> TRUE]

\* load_from_cache: the snapshot read, or the untouched empty list when the
\* file is missing or json.load raises (the exception is logged and dropped)
load_from_cache(file, current) ==
    IF file.kind = "missing" THEN [projects_data |-> current, raised |-> FALSE]
    ELSE IF file.kind = "snapshot" THEN [projects_data |-> file.data, raised |-> FALSE]
    ELSE [projects_data |-> current, raised |-> FALSE]

\* load_ignored_folders: the list read, or [] on any exception
load_ignored_folders(file) == IF file.kind = "list" THEN file.paths ELSE {}

\* a change test that compares the sets of paths
PathsChanged_AsSets(current, projects) == Range(PathsOf(current)) # Range(PathsOf(projects))

\* the change test of on_scan_finished
PathsChanged(current, projects) == PathsOf(current) # PathsOf(projects)

\* ------------------------------------------------------------------ state
VARIABLES
    pc,               \* position of each process in main()
    exitStatus,       \* status passed to sys.exit, -1 while not exited
    listeners,        \* processes whose QLocalServer listens under SOCKET_NAME
    staleName,        \* a name left behind by a process that died
    pending,          \* per server: connections waiting for handle_connection
    connTo,           \* per client: the server its socket connected to, 0 if none
    shows,            \* per client: show_window calls its connection caused
    handled,          \* per client: its connection was taken by handle_connection
    ignored_folders,  \* VSCodeLauncher.ignored_folders
    projects_data,    \* VSCodeLauncher.projects_data
    vscode_exe,       \* VSCodeLauncher.vscode_exe
    loadSeen,         \* kind of cache file load_from_cache met, "" before it ran
    refreshed,        \* the latest on_scan_finished replaced the list and redrew
    launch,           \* outcome of the latest open_project of each process
    visible,          \* the window of each process is shown (not hidden to the tray)
    dialogCancelled,  \* the latest ignore dialog of each process was cancelled
    scans,            \* every ProjectScannerWorker started, in request order
    inbox,            \* per process: finished signals queued for the main thread
    cacheFile,        \* project_cache.json
    ignoreFile,       \* ignored_folders.json
    configFile,       \* launcher_config.json
    storage,          \* storage.json of the three variants
    dirs,             \* paths that are directories
    mtime,            \* modification time of each path
    exeOnDisk,        \* executables that exist
    envSteps,         \* changes made by the outside world so far
    crashes           \* processes that died so far

procVars == <<pc, exitStatus, listeners, staleName, pending, connTo, shows, handled>>
engineVars ==
    <<ignored_folders, projects_data, vscode_exe, loadSeen, refreshed, launch, visible,
      dialogCancelled>>
scanVars == <<scans, inbox>>
fileVars == <<cacheFile, ignoreFile, configFile>>
envVars == <<storage, entries, dirs, mtime, exeOnDisk, envSteps, crashes>>
vars == <<procVars, engineVars, scanVars, fileVars, envVars>>

WhereOut == ExeOnPath

\* no open_project yet; afterwards: what it reported and the command it ran
NoLaunch == [outcome |-> "none", exe |-> NoExe, project |-> None]

\* file URIs of the source that decode to a directory, read independently of
\* the scanner's loop
ValidCandidates(uris, dirSet) ==
    {DecodeUri(uris[i]) : i \in {j \in 1..Len(uris) : StartsWith(uris[j], FilePrefix)}} \cap dirSet

\* ---------------------------------------------------------- initial state
RecOf(path, t) == [path |-> path, name |-> basename(path), mtime |-> t,
                   icon |-> find_project_icon(path)]

InitStorages == { <<Listed(<<UriA, UriB>>), Missing, Missing>>,
                  <<Missing, Corrupt, Listed(<<UriA>>)>>,
                  <<Missing, Missing, Missing>> }
InitCaches == { NoFile, Truncated, Saved(<<RecOf(PathB, 300), RecOf(PathA, 100)>>) }
InitIgnoreFiles == { [kind |-> "missing"], [kind |-> "list", paths |-> {PathA}] }

InitProcs ==
    /\ pc = [p \in Procs |-> "start"]
    /\ exitStatus = [p \in Procs |-> -1]
    /\ listeners = {}
    /\ staleName = FALSE
    /\ pending = [p \in Procs |-> <<>>]
    /\ connTo = [p \in Procs |-> 0]
    /\ shows = [p \in Procs |-> 0]
    /\ handled = [p \in Procs |-> FALSE]
    /\ ignored_folders = [p \in Procs |-> {}]
    /\ projects_data = [p \in Procs |-> <<>>]
    /\ vscode_exe = [p \in Procs |-> NoExe]
    /\ loadSeen = [p \in Procs |-> ""]
    /\ refreshed = [p \in Procs |-> FALSE]
    /\ launch = [p \in Procs |-> NoLaunch]
    /\ visible = [p \in Procs |-> FALSE]
    /\ dialogCancelled = [p \in Procs |-> FALSE]
    /\ scans = <<>>
    /\ inbox = [p \in Procs |-> <<>>]

Init ==
    /\ InitProcs
    /\ cacheFile \in InitCaches
    /\ ignoreFile \in InitIgnoreFiles
    /\ configFile = NoConfig
    /\ storage \in InitStorages
    /\ entries = NoListing
    /\ dirs = {PathA, PathB}
    /\ mtime = [q \in Paths |-> IF q = PathB THEN 300 ELSE 100]
    /\ exeOnDisk = {ExePf}
    /\ envSteps = 0
    /\ crashes = 0

\* ------------------------------------------------------------ start_scan
NewScan(p, ignored, before) ==
    [owner |-> p, ignored |-> ignored, prevIgnored |-> before, stage |-> "started",
     result |-> <<>>, discovered |-> <<>>, valid |-> {}, failed |-> FALSE,
     wrote |-> FALSE, exe |-> NoExe]

\* self.scanner = ProjectScannerWorker(self.ignored_folders); connect; start
start_scan(p, ignored, before) == scans' = Append(scans, NewScan(p, ignored, before))

CanStartScan == Len(scans) < MaxScans

\* ------------------------------------------------------------------ main
\* socket.connectToServer(SOCKET_NAME); waitForConnected(500)
Connect(p) ==
    /\ pc[p] = "start"
    /\ IF listeners # {}
       THEN \E q \in listeners :
              /\ pending' = [pending EXCEPT ![q] = Append(@, [client |-> p, data |-> ""])]
              /\ connTo' = [connTo EXCEPT ![p] = q]
              /\ pc' = [pc EXCEPT ![p] = "connected"]
       ELSE /\ pc' = [pc EXCEPT ![p] = "noserver"]
            /\ UNCHANGED <<pending, connTo>>
    /\ UNCHANGED <<exitStatus, listeners, staleName, shows, handled>>
    /\ UNCHANGED <<engineVars, scanVars, fileVars, envVars>>

\* a second launch that writes its token and then runs on into the server setup
SendShow_NoExit(p) ==
    /\ pc[p] = "connected"
    /\ pending' = [q \in Procs |->
                     [i \in 1..Len(pending[q]) |->
                        IF pending[q][i].client = p
                        THEN [pending[q][i] EXCEPT !.data = "SHOW"]
                        ELSE pending[q][i]]]
    /\ pc' = [pc EXCEPT ![p] = "noserver"]
    /\ UNCHANGED <<exitStatus, listeners, staleName, connTo, shows, handled>>
    /\ UNCHANGED <<engineVars, scanVars, fileVars, envVars>>

\* socket.write(b"SHOW"); flush; waitForBytesWritten(1000); sys.exit(0)
SendShow(p) ==
    /\ pc[p] = "connected"
    /\ pending' = [q \in Procs |->
                     [i \in 1..Len(pending[q]) |->
                        IF pending[q][i].client = p
                        THEN [pending[q][i] EXCEPT !.data = "SHOW"]
                        ELSE pending[q][i]]]
    /\ pc' = [pc EXCEPT ![p] = "exited"]
    /\ exitStatus' = [exitStatus EXCEPT ![p] = 0]
    /\ UNCHANGED <<listeners, staleName, connTo, shows, handled>>
    /\ UNCHANGED <<engineVars, scanVars, fileVars, envVars>>

\* a cleanup that leaves the name of a dead process in place
RemoveServer_KeepsName(p) ==
    /\ pc[p] = "noserver"
    /\ pc' = [pc EXCEPT ![p] = "cleaned"]
    /\ UNCHANGED <<exitStatus, listeners, staleName, pending, connTo, shows, handled>>
    /\ UNCHANGED <<engineVars, scanVars, fileVars, envVars>>

\* QLocalServer.removeServer(SOCKET_NAME)
RemoveServer(p) ==
    /\ pc[p] = "noserver"
    /\ pc' = [pc EXCEPT ![p] = "cleaned"]
    /\ staleName' = FALSE
    /\ UNCHANGED <<exitStatus, listeners, pending, connTo, shows, handled>>
    /\ UNCHANGED <<engineVars, scanVars, fileVars, envVars>>

\* server.listen(SOCKET_NAME); the return value is not looked at
Listen(p) ==
    /\ pc[p] = "cleaned"
    /\ pc' = [pc EXCEPT ![p] = "listening"]
    /\ listeners' = IF staleName THEN listeners ELSE listeners \cup {p}
    /\ UNCHANGED <<exitStatus, staleName, pending, connTo, shows, handled>>
    /\ UNCHANGED <<engineVars, scanVars, fileVars, envVars>>

\* a constructor that starts the scan before it loads the cache
Construct_ScanFirst(p) ==
    /\ pc[p] = "listening"
    /\ CanStartScan
    /\ ignored_folders' = [ignored_folders EXCEPT ![p] = load_ignored_folders(ignoreFile)]
    /\ start_scan(p, load_ignored_folders(ignoreFile), load_ignored_folders(ignoreFile))
    /\ projects_data' = [projects_data EXCEPT ![p] = load_from_cache(cacheFile, <<>>).projects_data]
    /\ loadSeen' = [loadSeen EXCEPT ![p] = cacheFile.kind]
    /\ pc' = [pc EXCEPT ![p] = "running"]
    /\ UNCHANGED <<exitStatus, listeners, staleName, pending, connTo, shows, handled>>
    /\ UNCHANGED <<vscode_exe, refreshed, launch, visible, dialogCancelled>>
    /\ UNCHANGED <<inbox, fileVars, envVars>>

\* VSCodeLauncher.__init__ up to load_from_cache()
Construct(p) ==
    /\ pc[p] = "listening"
    /\ LET r == load_from_cache(cacheFile, <<>>)
       IN /\ projects_data' = [projects_data EXCEPT ![p] = r.projects_data]
          /\ pc' = [pc EXCEPT ![p] = IF r.raised THEN "crashed" ELSE "loaded"]
          /\ listeners' = IF r.raised THEN listeners \ {p} ELSE listeners
    /\ ignored_folders' = [ignored_folders EXCEPT ![p] = load_ignored_folders(ignoreFile)]
    /\ loadSeen' = [loadSeen EXCEPT ![p] = cacheFile.kind]
    /\ UNCHANGED <<exitStatus, staleName, pending, connTo, shows, handled>>
    /\ UNCHANGED <<vscode_exe, refreshed, launch, visible, dialogCancelled>>
    /\ UNCHANGED <<scanVars, fileVars, envVars>>

\* the rest of __init__ and of main(): start_scan(), newConnection.connect,
\* window.show(), app.exec()
FirstScan(p) ==
    /\ pc[p] = "loaded"
    /\ CanStartScan
    /\ start_scan(p, ignored_folders[p], ignored_folders[p])
    /\ pc' = [pc EXCEPT ![p] = "running"]
    /\ visible' = [visible EXCEPT ![p] = TRUE]
    /\ UNCHANGED <<exitStatus, listeners, staleName, pending, connTo, shows, handled>>
    /\ UNCHANGED <<ignored_folders, projects_data, vscode_exe, loadSeen, refreshed, launch,
                   dialogCancelled>>
    /\ UNCHANGED <<inbox, fileVars, envVars>>

\* show_window: showNormal, activateWindow, raise_, focus, start_scan
show_window(p) ==
    /\ visible' = [visible EXCEPT ![p] = TRUE]
    /\ start_scan(p, ignored_folders[p], ignored_folders[p])

\* a handler whose comparison of the command never matches
HandleShow_NeverMatches(q) ==
    /\ pc[q] = "running"
    /\ pending[q] # <<>>
    /\ Head(pending[q]).data = "SHOW"
    /\ pending' = [pending EXCEPT ![q] = Tail(@)]
    /\ handled' = [handled EXCEPT ![Head(pending[q]).client] = TRUE]
    /\ UNCHANGED <<pc, exitStatus, listeners, staleName, connTo, shows>>
    /\ UNCHANGED <<engineVars, scanVars, fileVars, envVars>>

\* handle_connection when the client's token arrives within waitForReadyRead(1000).
\* A second launch writes its token right after it connected, so the wait of
\* the primary ends with the token unless that client died first.
HandleShow(q) ==
    /\ pc[q] = "running"
    /\ pending[q] # <<>>
    /\ Head(pending[q]).data = "SHOW"
    /\ CanStartScan
    /\ pending' = [pending EXCEPT ![q] = Tail(@)]
    /\ shows' = [shows EXCEPT ![Head(pending[q]).client] = @ + 1]
    /\ handled' = [handled EXCEPT ![Head(pending[q]).client] = TRUE]
    /\ show_window(q)
    /\ UNCHANGED <<pc, exitStatus, listeners, staleName, connTo>>
    /\ UNCHANGED <<ignored_folders, projects_data, vscode_exe, loadSeen, refreshed, launch,
                   dialogCancelled>>
    /\ UNCHANGED <<inbox, fileVars, envVars>>

\* handle_connection when waitForReadyRead(1000) times out: nothing is read
HandleSilent(q) ==
    /\ pc[q] = "running"
    /\ pending[q] # <<>>
    /\ Head(pending[q]).client \in Procs
    /\ Head(pending[q]).data # "SHOW"
    /\ pc[Head(pending[q]).client] # "connected"
    /\ pending' = [pending EXCEPT ![q] = Tail(@)]
    /\ handled' = [handled EXCEPT ![Head(pending[q]).client] = TRUE]
    /\ UNCHANGED <<pc, exitStatus, listeners, staleName, connTo, shows>>
    /\ UNCHANGED <<engineVars, scanVars, fileVars, envVars>>

\* a program that is not a launch of this one connects to the name and sends
\* nothing, a part of the token, or another token
Foreign == 0
BadTokens == {"", "SH", "QUIT"}

ForeignConnect(q, d) ==
    /\ q \in listeners
    /\ envSteps < MaxEnvSteps
    /\ envSteps' = envSteps + 1
    /\ pending' = [pending EXCEPT ![q] = Append(@, [client |-> Foreign, data |-> d])]
    /\ UNCHANGED <<pc, exitStatus, listeners, staleName, connTo, shows, handled>>
    /\ UNCHANGED <<engineVars, scanVars, fileVars>>
    /\ UNCHANGED <<storage, entries, dirs, mtime, exeOnDisk, crashes>>

\* a handler that shows the window for whatever it read
HandleForeign_ShowsOnAnyToken(q) ==
    /\ pc[q] = "running"
    /\ pending[q] # <<>>
    /\ Head(pending[q]).client = Foreign
    /\ CanStartScan
    /\ pending' = [pending EXCEPT ![q] = Tail(@)]
    /\ IF Head(pending[q]).data # "" THEN show_window(q)
       ELSE scans' = scans /\ visible' = visible
    /\ UNCHANGED <<pc, exitStatus, listeners, staleName, connTo, shows, handled>>
    /\ UNCHANGED <<ignored_folders, projects_data, vscode_exe, loadSeen, refreshed, launch,
                   dialogCancelled>>
    /\ UNCHANGED <<inbox, fileVars, envVars>>

\* handle_connection for such a client: waitForReadyRead(1000) times out, or
\* the bytes read are not "SHOW"; the handler returns
HandleForeign(q) ==
    /\ pc[q] = "running"
    /\ pending[q] # <<>>
    /\ Head(pending[q]).client = Foreign
    /\ pending' = [pending EXCEPT ![q] = Tail(@)]
    /\ UNCHANGED <<pc, exitStatus, listeners, staleName, connTo, shows, handled>>
    /\ UNCHANGED <<engineVars, scanVars, fileVars, envVars>>

\* an accept that changes the list object the running workers hold
AddIgnoredFolder_MutatesShared(p, toggled) ==
    /\ pc[p] = "running"
    /\ CanStartScan
    /\ toggled \subseteq Range(PathsOf(projects_data[p]))
    /\ LET selected_paths == SymDiff(ignored_folders[p], toggled)
       IN /\ ignored_folders' = [ignored_folders EXCEPT ![p] = selected_paths]
          /\ ignoreFile' = [kind |-> "list", paths |-> selected_paths]
          /\ scans' = Append([i \in 1..Len(scans) |->
                                IF scans[i].owner = p /\ scans[i].stage \in {"started", "writing"}
                                THEN [scans[i] EXCEPT !.ignored = selected_paths]
                                ELSE scans[i]],
                             NewScan(p, selected_paths, ignored_folders[p]))
    /\ UNCHANGED procVars
    /\ dialogCancelled' = [dialogCancelled EXCEPT ![p] = FALSE]
    /\ UNCHANGED <<projects_data, vscode_exe, loadSeen, refreshed, launch, visible>>
    /\ UNCHANGED <<inbox, cacheFile, configFile, envVars>>

\* add_ignored_folder with the dialog accepted: the dialog starts from the
\* current ignore list and offers one toggle button per path of projects_data
AddIgnoredFolder(p, toggled) ==
    /\ pc[p] = "running"
    /\ CanStartScan
    /\ toggled \subseteq Range(PathsOf(projects_data[p]))
    /\ LET selected_paths == SymDiff(ignored_folders[p], toggled)
       IN /\ ignored_folders' = [ignored_folders EXCEPT ![p] = selected_paths]
          /\ ignoreFile' = [kind |-> "list", paths |-> selected_paths]
          /\ start_scan(p, selected_paths, ignored_folders[p])
    /\ UNCHANGED procVars
    /\ dialogCancelled' = [dialogCancelled EXCEPT ![p] = FALSE]
    /\ UNCHANGED <<projects_data, vscode_exe, loadSeen, refreshed, launch, visible>>
    /\ UNCHANGED <<inbox, cacheFile, configFile, envVars>>

\* add_ignored_folder with the dialog cancelled: dialog.exec() returns 0 and
\* the body of the if is skipped
CancelIgnoredFolder(p) ==
    /\ pc[p] = "running"
    /\ dialogCancelled' = [dialogCancelled EXCEPT ![p] = TRUE]
    /\ UNCHANGED procVars
    /\ UNCHANGED <<ignored_folders, projects_data, vscode_exe, loadSeen, refreshed, launch,
                   visible>>
    /\ UNCHANGED <<scanVars, fileVars, envVars>>

\* -------------------------------------------- ProjectScannerWorker.run
\* self.finished.emit(projects, vscode_path): queued for the owner's main thread
Emit(s, fields) ==
    /\ scans' = [scans EXCEPT ![s] = fields]
    /\ inbox' = [inbox EXCEPT ![scans[s].owner] = Append(@, s)]

Resolved == find_vscode_executable(configFile, exeOnDisk, WhereOut)

\* no storage.json exists: emit([], vscode_path) and return
ScanNoSource(s) ==
    /\ s \in 1..Len(scans)
    /\ scans[s].stage = "started"
    /\ StoragePath(storage) = 0
    /\ configFile' = Resolved.config
    /\ Emit(s, [scans[s] EXCEPT !.stage = "emitted", !.exe = Resolved.path])
    /\ UNCHANGED <<procVars, engineVars, cacheFile, ignoreFile, envVars>>

\* open/json.load/get raises on the chosen storage.json: except branch
ScanSourceError(s) ==
    /\ s \in 1..Len(scans)
    /\ scans[s].stage = "started"
    /\ StoragePath(storage) # 0
    /\ storage[StoragePath(storage)].kind = "corrupt"
    /\ configFile' = Resolved.config
    /\ Emit(s, [scans[s] EXCEPT !.stage = "emitted", !.failed = TRUE, !.exe = Resolved.path])
    /\ UNCHANGED <<procVars, engineVars, cacheFile, ignoreFile, envVars>>

\* the loop, the sort and open(CACHE_FILE, 'w')
ScanCollect(s) ==
    /\ s \in 1..Len(scans)
    /\ scans[s].stage = "started"
    /\ StoragePath(storage) # 0
    /\ storage[StoragePath(storage)].kind = "list"
    /\ LET uris == storage[StoragePath(storage)].uris
           final_projects == CollectProjects(uris, scans[s].ignored, dirs, mtime)
       IN scans' = [scans EXCEPT ![s] =
                      [@ EXCEPT !.stage = "writing",
                                !.discovered = final_projects,
                                !.result = SortByMtimeDesc(final_projects),
                                !.valid = ValidCandidates(uris, dirs),
                                !.exe = Resolved.path]]
    /\ configFile' = Resolved.config
    /\ cacheFile' = OpenForWrite(cacheFile)
    /\ UNCHANGED <<procVars, engineVars, inbox, ignoreFile, envVars>>

\* os.path.getmtime raises for a candidate that stopped being a directory
\* between the isdir test and the call: except branch, nothing was opened
ScanValidateError(s) ==
    /\ s \in 1..Len(scans)
    /\ scans[s].stage = "started"
    /\ StoragePath(storage) # 0
    /\ storage[StoragePath(storage)].kind = "list"
    /\ CollectProjects(storage[StoragePath(storage)].uris, scans[s].ignored, dirs, mtime) # <<>>
    /\ configFile' = Resolved.config
    /\ Emit(s, [scans[s] EXCEPT !.stage = "emitted", !.failed = TRUE, !.exe = Resolved.path])
    /\ UNCHANGED <<procVars, engineVars, cacheFile, ignoreFile, envVars>>

\* json.dump(final_projects, f), close, emit(final_projects, vscode_path)
WriteCache(s) ==
    /\ s \in 1..Len(scans)
    /\ scans[s].stage = "writing"
    /\ cacheFile' = DumpTo(cacheFile, scans[s].result)
    /\ Emit(s, [scans[s] EXCEPT !.stage = "emitted", !.wrote = TRUE])
    /\ UNCHANGED <<procVars, engineVars, ignoreFile, configFile, envVars>>

\* json.dump raises (the disk is full, the file is locked): the file keeps
\* what open() left, the except branch emits []
WriteError(s) ==
    /\ s \in 1..Len(scans)
    /\ scans[s].stage = "writing"
    /\ Emit(s, [scans[s] EXCEPT !.stage = "emitted", !.failed = TRUE, !.result = <<>>])
    /\ UNCHANGED <<procVars, engineVars, fileVars, envVars>>

\* ------------------------------------------------------ on_scan_finished
\* the worker object is released once its signal was handled; the record
\* keeps what it emitted
Delivered(scan) ==
    [NewScan(scan.owner, {}, {}) EXCEPT !.stage = "delivered", !.result = scan.result,
                                        !.failed = scan.failed, !.wrote = scan.wrote]

on_scan_finished(p, projects, vscode_path) ==
    /\ vscode_exe' = [vscode_exe EXCEPT ![p] = vscode_path]
    /\ projects_data' = [projects_data EXCEPT ![p] =
                           IF PathsChanged(projects_data[p], projects)
                           THEN projects ELSE @]
    /\ refreshed' = [refreshed EXCEPT ![p] = PathsChanged(projects_data[p], projects)]

Deliver(p) ==
    /\ pc[p] = "running"
    /\ inbox[p] # <<>>
    /\ LET s == Head(inbox[p])
       IN /\ on_scan_finished(p, scans[s].result, scans[s].exe)
          /\ scans' = [scans EXCEPT ![s] = Delivered(scans[s])]
    /\ inbox' = [inbox EXCEPT ![p] = Tail(@)]
    /\ UNCHANGED procVars
    /\ UNCHANGED <<ignored_folders, loadSeen, launch, visible, dialogCancelled>>
    /\ UNCHANGED <<fileVars, envVars>>

\* ---------------------------------------------------------- open_project
\* an open_project that reports the missing executable without looking for it
open_project_NoRediscover(p, path) ==
    /\ pc[p] = "running"
    /\ path \in Range(PathsOf(projects_data[p]))
    /\ launch' = [launch EXCEPT ![p] =
                     IF vscode_exe[p] = NoExe
                     THEN [outcome |-> "notfound", exe |-> NoExe, project |-> path]
                     ELSE IF vscode_exe[p] \in exeOnDisk
                     THEN [outcome |-> "spawned", exe |-> vscode_exe[p], project |-> path]
                     ELSE [outcome |-> "failed", exe |-> vscode_exe[p], project |-> path]]
    /\ visible' = [visible EXCEPT ![p] =
                      IF vscode_exe[p] # NoExe /\ vscode_exe[p] \in exeOnDisk THEN FALSE ELSE @]
    /\ UNCHANGED procVars
    /\ UNCHANGED <<ignored_folders, projects_data, vscode_exe, loadSeen, refreshed,
                   dialogCancelled>>
    /\ UNCHANGED <<scanVars, fileVars, envVars>>

\* a project button is clicked: resolve the executable only if none is held,
\* report "not found" if there is still none, else Popen([vscode_exe, path]);
\* Popen raises for a file that does not exist and that error is reported
open_project(p, path) ==
    /\ pc[p] = "running"
    /\ path \in Range(PathsOf(projects_data[p]))
    /\ LET found == IF vscode_exe[p] = NoExe
                    THEN Resolved
                    ELSE [path |-> vscode_exe[p], config |-> configFile]
       IN /\ vscode_exe' = [vscode_exe EXCEPT ![p] = found.path]
          /\ configFile' = found.config
          /\ launch' = [launch EXCEPT ![p] =
                           IF found.path = NoExe
                           THEN [outcome |-> "notfound", exe |-> NoExe, project |-> path]
                           ELSE IF found.path \in exeOnDisk
                           THEN [outcome |-> "spawned", exe |-> found.path, project |-> path]
                           ELSE [outcome |-> "failed", exe |-> found.path, project |-> path]]
          \* self.hide() after a spawn that did not raise
          /\ visible' = [visible EXCEPT ![p] =
                            IF found.path # NoExe /\ found.path \in exeOnDisk THEN FALSE ELSE @]
    /\ UNCHANGED procVars
    /\ UNCHANGED <<ignored_folders, projects_data, loadSeen, refreshed, dialogCancelled>>
    /\ UNCHANGED <<scanVars, cacheFile, ignoreFile, envVars>>

\* ------------------------------------------------- window and tray commands
\* a close handler that accepts the event and ends the application
closeEvent_Quits(p) ==
    /\ pc[p] = "running"
    /\ visible[p]
    /\ visible' = [visible EXCEPT ![p] = FALSE]
    /\ pc' = [pc EXCEPT ![p] = "quit"]
    /\ exitStatus' = [exitStatus EXCEPT ![p] = 0]
    /\ listeners' = listeners \ {p}
    /\ pending' = [pending EXCEPT ![p] = <<>>]
    /\ scans' = [i \in 1..Len(scans) |->
                   IF scans[i].owner = p
                   THEN [NewScan(p, {}, {}) EXCEPT !.stage = "dead"] ELSE scans[i]]
    /\ inbox' = [inbox EXCEPT ![p] = <<>>]
    /\ UNCHANGED <<staleName, connTo, shows, handled>>
    /\ UNCHANGED <<ignored_folders, projects_data, vscode_exe, loadSeen, refreshed, launch,
                   dialogCancelled>>
    /\ UNCHANGED <<fileVars, envVars>>

\* closeEvent: event.ignore(), hide(), trim_memory(), tray message
closeEvent(p) ==
    /\ pc[p] = "running"
    /\ visible[p]
    /\ visible' = [visible EXCEPT ![p] = FALSE]
    /\ UNCHANGED procVars
    /\ UNCHANGED <<ignored_folders, projects_data, vscode_exe, loadSeen, refreshed, launch,
                   dialogCancelled>>
    /\ UNCHANGED <<scanVars, fileVars, envVars>>

\* a tray action that shows the window and scans only if no scan is running
TrayShow_SkipsWhenScanning(p) ==
    /\ pc[p] = "running"
    /\ CanStartScan
    /\ visible' = [visible EXCEPT ![p] = TRUE]
    /\ IF \E s \in 1..Len(scans) :
             scans[s].owner = p /\ scans[s].stage \in {"started", "writing"}
       THEN scans' = scans
       ELSE start_scan(p, ignored_folders[p], ignored_folders[p])
    /\ UNCHANGED procVars
    /\ UNCHANGED <<ignored_folders, projects_data, vscode_exe, loadSeen, refreshed, launch,
                   dialogCancelled>>
    /\ UNCHANGED <<inbox, fileVars, envVars>>

\* the tray menu's "Show" and a click on the tray icon (on_tray_activated
\* with reason Trigger) both run show_window
TrayShow(p) ==
    /\ pc[p] = "running"
    /\ CanStartScan
    /\ show_window(p)
    /\ UNCHANGED procVars
    /\ UNCHANGED <<ignored_folders, projects_data, vscode_exe, loadSeen, refreshed, launch,
                   dialogCancelled>>
    /\ UNCHANGED <<inbox, fileVars, envVars>>

\* ------------------------------------------------------- end of a process
\* the worker threads of a process end with it, wherever they are
StopScans(p) ==
    /\ scans' = [i \in 1..Len(scans) |->
                   IF scans[i].owner = p
                   THEN [NewScan(p, {}, {}) EXCEPT !.stage = "dead"] ELSE scans[i]]
    /\ inbox' = [inbox EXCEPT ![p] = <<>>]

\* the tray menu's "Quit": QApplication.instance().quit() ends app.exec(),
\* main() leaves through sys.exit with the status of the event loop, and the
\* server object goes with the process
force_close(p) ==
    /\ pc[p] = "running"
    /\ pc' = [pc EXCEPT ![p] = "quit"]
    /\ exitStatus' = [exitStatus EXCEPT ![p] = 0]
    /\ listeners' = listeners \ {p}
    /\ pending' = [pending EXCEPT ![p] = <<>>]
    /\ StopScans(p)
    /\ UNCHANGED <<staleName, connTo, shows, handled>>
    /\ UNCHANGED <<engineVars, fileVars, envVars>>

\* the process dies (killed, power loss, fatal error)
Crash(p) ==
    /\ pc[p] \in {"connected", "listening", "loaded", "running"}
    /\ crashes < MaxCrashes
    /\ crashes' = crashes + 1
    /\ pc' = [pc EXCEPT ![p] = "crashed"]
    /\ ignored_folders' = [ignored_folders EXCEPT ![p] = {}]
    /\ projects_data' = [projects_data EXCEPT ![p] = <<>>]
    /\ vscode_exe' = [vscode_exe EXCEPT ![p] = NoExe]
    /\ refreshed' = [refreshed EXCEPT ![p] = FALSE]
    /\ loadSeen' = [loadSeen EXCEPT ![p] = ""]
    /\ launch' = [launch EXCEPT ![p] = NoLaunch]
    /\ visible' = [visible EXCEPT ![p] = FALSE]
    /\ dialogCancelled' = [dialogCancelled EXCEPT ![p] = FALSE]
    /\ listeners' = listeners \ {p}
    /\ pending' = [pending EXCEPT ![p] = <<>>]
    /\ \E left \in {staleName, (p \in listeners)} : staleName' = left
    /\ StopScans(p)
    /\ UNCHANGED <<exitStatus, connTo, shows, handled>>
    /\ UNCHANGED <<fileVars, storage, entries, dirs, mtime, exeOnDisk, envSteps>>

\* ------------------------------------------------------------ environment
Times == {100, 200, 300}
\* the directories the outside world changes while the program runs
EnvPaths == {PathA, PathB}

\* a directory is deleted or created by someone else
EnvDirChange(path) ==
    /\ envSteps < MaxEnvSteps
    /\ envSteps' = envSteps + 1
    /\ dirs' = SymDiff(dirs, {path})
    /\ UNCHANGED <<procVars, engineVars, scanVars, fileVars, storage, entries, mtime, exeOnDisk,
                   crashes>>

\* a directory is modified by someone else
EnvTouch(path, t) ==
    /\ envSteps < MaxEnvSteps
    /\ path \in dirs
    /\ t # mtime[path]
    /\ envSteps' = envSteps + 1
    /\ mtime' = [mtime EXCEPT ![path] = t]
    /\ UNCHANGED <<procVars, engineVars, scanVars, fileVars, storage, entries, dirs, exeOnDisk,
                   crashes>>

\* an executable is installed or removed by someone else
EnvExeChange(x) ==
    /\ envSteps < MaxEnvSteps
    /\ envSteps' = envSteps + 1
    /\ exeOnDisk' = SymDiff(exeOnDisk, {x})
    /\ UNCHANGED <<procVars, engineVars, scanVars, fileVars, storage, entries, dirs, mtime,
                   crashes>>

\* ---------------------------------------------------------- specification
ScannerStep ==
    \E s \in 1..MaxScans :
        \/ ScanNoSource(s)
        \/ ScanSourceError(s)
        \/ ScanCollect(s)
        \/ ScanValidateError(s)
        \/ WriteCache(s)
        \/ WriteError(s)

Next ==
    \/ \E p \in Procs : Connect(p)
    \/ \E p \in Procs : SendShow(p)
    \/ \E p \in Procs : RemoveServer(p)
    \/ \E p \in Procs : Listen(p)
    \/ \E p \in Procs : Construct(p)
    \/ \E p \in Procs : FirstScan(p)
    \/ \E p \in Procs : HandleShow(p)
    \/ \E p \in Procs : HandleSilent(p)
    \/ \E p \in Procs : \E toggled \in SUBSET Paths : AddIgnoredFolder(p, toggled)
    \/ ScannerStep
    \/ \E p \in Procs : Deliver(p)
    \/ \E p \in Procs : Crash(p)
    \/ \E path \in EnvPaths : EnvDirChange(path)
    \/ \E path \in EnvPaths : \E t \in Times : EnvTouch(path, t)

Spec == Init /\ [][Next]_vars

\* ------------------------------------------- one scan over many inputs
\* The state right after the first instance started its first scan, for every
\* source list, ignore list and directory state within the bounds.
AllUris == {UriA, UriB, UriC, UriAEsc, UriDE, UriRemote}

\* the keys of a JSON object are distinct strings, in file order
UriLists ==
    {us \in UNION {[1..n -> AllUris] : n \in 0..MaxUris} :
        \A i, j \in DOMAIN us : i # j => us[i] # us[j]}

ExampleMtime == [q \in Paths |-> IF q = PathB THEN 300 ELSE IF q = PathC THEN 200 ELSE 100]
MtimeChoices == { ExampleMtime,
                  [q \in Paths |-> 100],
                  [q \in Paths |-> IF q = PathC THEN 100 ELSE 200] }
IgnoreChoices == SUBSET {PathA, PathB}

InitScan ==
    /\ pc = [p \in Procs |-> IF p = 1 THEN "running" ELSE "start"]
    /\ exitStatus = [p \in Procs |-> -1]
    /\ listeners = {1}
    /\ staleName = FALSE
    /\ pending = [p \in Procs |-> <<>>]
    /\ connTo = [p \in Procs |-> 0]
    /\ shows = [p \in Procs |-> 0]
    /\ handled = [p \in Procs |-> FALSE]
    /\ \E ign \in IgnoreChoices :
         /\ ignoreFile = [kind |-> "list", paths |-> ign]
         /\ ignored_folders = [p \in Procs |-> IF p = 1 THEN ign ELSE {}]
         /\ scans = <<NewScan(1, ign, ign)>>
    /\ projects_data = [p \in Procs |-> <<>>]
    /\ vscode_exe = [p \in Procs |-> NoExe]
    /\ loadSeen = [p \in Procs |-> IF p = 1 THEN "missing" ELSE ""]
    /\ refreshed = [p \in Procs |-> FALSE]
    /\ launch = [p \in Procs |-> NoLaunch]
    /\ visible = [p \in Procs |-> p = 1]
    /\ dialogCancelled = [p \in Procs |-> FALSE]
    /\ inbox = [p \in Procs |-> <<>>]
    /\ cacheFile = NoFile
    /\ configFile = NoConfig
    /\ \E us \in UriLists :
         storage \in { <<Listed(us), Missing, Missing>>, <<Missing, Listed(us), Corrupt>>,
                       <<Corrupt, Listed(us), Missing>>, <<Missing, Missing, Missing>> }
    /\ entries = NoListing
    /\ dirs \in SUBSET Paths
    /\ mtime \in MtimeChoices
    /\ exeOnDisk = {ExePf}
    /\ envSteps = 0
    /\ crashes = 0

NextScan ==
    \/ ScannerStep
    \/ Deliver(1)

SpecScan == InitScan /\ [][NextScan]_vars

\* --------------------------------------------- the life of the primary
\* The first instance runs with the snapshot it loaded, its window shown and
\* its first scan started; the other launches are still to come.
InitLife ==
    /\ pc = [p \in Procs |-> IF p = 1 THEN "running" ELSE "start"]
    /\ exitStatus = [p \in Procs |-> -1]
    /\ listeners = {1}
    /\ staleName = FALSE
    /\ pending = [p \in Procs |-> <<>>]
    /\ connTo = [p \in Procs |-> 0]
    /\ shows = [p \in Procs |-> 0]
    /\ handled = [p \in Procs |-> FALSE]
    /\ \E ign \in {{}, {PathA}} :
         /\ ignoreFile = [kind |-> "list", paths |-> ign]
         /\ ignored_folders = [p \in Procs |-> IF p = 1 THEN ign ELSE {}]
         /\ scans = <<NewScan(1, ign, ign)>>
    /\ projects_data = [p \in Procs |->
                          IF p = 1 THEN <<RecOf(PathB, 300), RecOf(PathA, 100)>> ELSE <<>>]
    /\ vscode_exe = [p \in Procs |-> NoExe]
    /\ loadSeen = [p \in Procs |-> IF p = 1 THEN "snapshot" ELSE ""]
    /\ refreshed = [p \in Procs |-> FALSE]
    /\ launch = [p \in Procs |-> NoLaunch]
    /\ visible = [p \in Procs |-> p = 1]
    /\ dialogCancelled = [p \in Procs |-> FALSE]
    /\ inbox = [p \in Procs |-> <<>>]
    /\ cacheFile = Saved(<<RecOf(PathB, 300), RecOf(PathA, 100)>>)
    /\ configFile = NoConfig
    /\ storage \in InitStorages
    /\ entries = NoListing
    /\ dirs = {PathA, PathB}
    /\ mtime = [q \in Paths |-> IF q = PathB THEN 300 ELSE 100]
    /\ exeOnDisk \in { {ExePf}, {} }
    /\ envSteps = 0
    /\ crashes = 0

NextLife ==
    \/ \E p \in Procs : Connect(p)
    \/ \E p \in Procs : SendShow(p)
    \/ \E p \in Procs : RemoveServer(p)
    \/ \E p \in Procs : Listen(p)
    \/ \E p \in Procs : Construct(p)
    \/ \E p \in Procs : FirstScan(p)
    \/ \E p \in Procs : HandleShow(p)
    \/ \E p \in Procs : closeEvent(p)
    \/ \E p \in Procs : TrayShow(p)
    \/ \E p \in Procs : \E path \in Paths : open_project(p, path)
    \/ \E p \in Procs : force_close(p)
    \/ ScannerStep
    \/ \E p \in Procs : Deliver(p)

SpecLife == InitLife /\ [][NextLife]_vars

\* The event loop of the primary runs every queued newConnection handler; a
\* second launch that connected goes on to write its token; a process that
\* listens goes on through the constructor to its event loop.
SpecLifeFair ==
    /\ InitLife
    /\ [][NextLife]_vars
    /\ WF_vars(\E q \in Procs : HandleShow(q))
    /\ \A p \in Procs : WF_vars(SendShow(p))
    /\ \A p \in Procs : WF_vars(Construct(p))
    /\ \A p \in Procs : WF_vars(FirstScan(p))

\* ------------------------------------------------- the ignore dialog
\* The first instance runs with the snapshot it loaded and its first scan in
\* flight, for an empty and a non-empty ignore list.
InitIgnore ==
    /\ pc = [p \in Procs |-> IF p = 1 THEN "running" ELSE "start"]
    /\ exitStatus = [p \in Procs |-> -1]
    /\ listeners = {1}
    /\ staleName = FALSE
    /\ pending = [p \in Procs |-> <<>>]
    /\ connTo = [p \in Procs |-> 0]
    /\ shows = [p \in Procs |-> 0]
    /\ handled = [p \in Procs |-> FALSE]
    /\ ignoreFile \in InitIgnoreFiles
    /\ ignored_folders = [p \in Procs |->
                            IF p = 1 THEN load_ignored_folders(ignoreFile) ELSE {}]
    /\ scans = <<NewScan(1, load_ignored_folders(ignoreFile), load_ignored_folders(ignoreFile))>>
    /\ projects_data = [p \in Procs |->
                          IF p = 1 THEN <<RecOf(PathB, 300), RecOf(PathA, 100)>> ELSE <<>>]
    /\ vscode_exe = [p \in Procs |-> NoExe]
    /\ loadSeen = [p \in Procs |-> IF p = 1 THEN "snapshot" ELSE ""]
    /\ refreshed = [p \in Procs |-> FALSE]
    /\ launch = [p \in Procs |-> NoLaunch]
    /\ visible = [p \in Procs |-> p = 1]
    /\ dialogCancelled = [p \in Procs |-> FALSE]
    /\ inbox = [p \in Procs |-> <<>>]
    /\ cacheFile = Saved(<<RecOf(PathB, 300), RecOf(PathA, 100)>>)
    /\ configFile = NoConfig
    /\ storage \in InitStorages
    /\ entries = NoListing
    /\ dirs = {PathA, PathB}
    /\ mtime = [q \in Paths |-> IF q = PathB THEN 300 ELSE 100]
    /\ exeOnDisk = {ExePf}
    /\ envSteps = 0
    /\ crashes = 0

NextIgnore ==
    \/ \E p \in Procs : \E toggled \in SUBSET Paths : AddIgnoredFolder(p, toggled)
    \/ \E p \in Procs : CancelIgnoredFolder(p)
    \/ ScannerStep
    \/ \E p \in Procs : Deliver(p)

SpecIgnore == InitIgnore /\ [][NextIgnore]_vars

\* ------------------------------------- the icon search over many listings
\* entries that are no icons: f00, f01, ...
DigitChars == <<"0", "1", "2", "3", "4", "5", "6", "7", "8", "9">>
Filler(i) == <<"f", DigitChars[(i \div 10) + 1], DigitChars[(i % 10) + 1]>>
Fillers(n) == [i \in 1..n |-> Filler(i)]

IcoX == <<"x">>
IcoUpper == <<"m", ".", "I", "C", "O">>
IcoZ == <<"z", ".", "i", "c", "o">>
IcoY == <<"y", ".", "i", "c", "o">>
IcoLate == <<"l", "a", "t", "e", ".", "i", "c", "o">>
FaviconUpper == <<"F", "A", "V", "I", "C", "O", "N", ".", "I", "C", "O">>

InitListings ==
    { [ok |-> FALSE, files |-> <<>>],
      [ok |-> FALSE, files |-> <<IcoZ, CommonNames[2]>>],
      NoListing,
      [ok |-> TRUE, files |-> <<IcoX, IcoUpper, CommonNames[2]>>],
      [ok |-> TRUE, files |-> <<CommonNames[4], IcoZ, CommonNames[3]>>],
      [ok |-> TRUE, files |-> <<IcoX, IcoZ, IcoY>>],
      [ok |-> TRUE, files |-> <<FaviconUpper>>],
      [ok |-> TRUE, files |-> Fillers(IconScanLimit - 1) \o <<IcoLate>>],
      [ok |-> TRUE, files |-> Fillers(IconScanLimit) \o <<IcoLate>>],
      [ok |-> TRUE, files |-> Fillers(IconScanLimit) \o <<CommonNames[1]>>] }

\* The first instance has started its first scan and the source lists the
\* examined directory, for every listing above.
InitIcon ==
    /\ pc = [p \in Procs |-> IF p = 1 THEN "running" ELSE "start"]
    /\ exitStatus = [p \in Procs |-> -1]
    /\ listeners = {1}
    /\ staleName = FALSE
    /\ pending = [p \in Procs |-> <<>>]
    /\ connTo = [p \in Procs |-> 0]
    /\ shows = [p \in Procs |-> 0]
    /\ handled = [p \in Procs |-> FALSE]
    /\ ignoreFile = [kind |-> "missing"]
    /\ ignored_folders = [p \in Procs |-> {}]
    /\ scans = <<NewScan(1, {}, {})>>
    /\ projects_data = [p \in Procs |-> <<>>]
    /\ vscode_exe = [p \in Procs |-> NoExe]
    /\ loadSeen = [p \in Procs |-> IF p = 1 THEN "missing" ELSE ""]
    /\ refreshed = [p \in Procs |-> FALSE]
    /\ launch = [p \in Procs |-> NoLaunch]
    /\ visible = [p \in Procs |-> p = 1]
    /\ dialogCancelled = [p \in Procs |-> FALSE]
    /\ inbox = [p \in Procs |-> <<>>]
    /\ cacheFile = NoFile
    /\ configFile = NoConfig
    /\ storage \in { <<Listed(<<UriX>>), Missing, Missing>>,
                      <<Missing, Listed(<<UriB, UriX>>), Corrupt>>,
                      <<Corrupt, Listed(<<UriX>>), Missing>>,
                      <<Missing, Missing, Missing>> }
    /\ entries \in InitListings
    /\ dirs \in { {PathX}, {PathX, PathB} }
    /\ mtime \in { [q \in Paths \cup {PathX} |-> 100],
                    [q \in Paths \cup {PathX} |-> IF q = PathX THEN 300 ELSE 200] }
    /\ exeOnDisk = {ExePf}
    /\ envSteps = 0
    /\ crashes = 0

SpecIcon == InitIcon /\ [][NextScan]_vars

\* ------------------------------ resolving and using the executable
\* The first instance runs with the snapshot [b, a] loaded and its first scan
\* started, for every content of launcher_config.json and every set of
\* installed executables.
InitConfigs == {NoConfig, CorruptConfig, Config(NoExe), Config(ExeOnPath), Config(ExeLocalCmd)}

InitExe ==
    /\ pc = [p \in Procs |-> IF p = 1 THEN "running" ELSE "start"]
    /\ exitStatus = [p \in Procs |-> -1]
    /\ listeners = {1}
    /\ staleName = FALSE
    /\ pending = [p \in Procs |-> <<>>]
    /\ connTo = [p \in Procs |-> 0]
    /\ shows = [p \in Procs |-> 0]
    /\ handled = [p \in Procs |-> FALSE]
    /\ ignoreFile = [kind |-> "missing"]
    /\ ignored_folders = [p \in Procs |-> {}]
    /\ scans = <<NewScan(1, {}, {})>>
    /\ projects_data = [p \in Procs |->
                          IF p = 1 THEN <<RecOf(PathB, 300), RecOf(PathA, 100)>> ELSE <<>>]
    /\ vscode_exe = [p \in Procs |-> NoExe]
    /\ loadSeen = [p \in Procs |-> IF p = 1 THEN "snapshot" ELSE ""]
    /\ refreshed = [p \in Procs |-> FALSE]
    /\ launch = [p \in Procs |-> NoLaunch]
    /\ visible = [p \in Procs |-> p = 1]
    /\ dialogCancelled = [p \in Procs |-> FALSE]
    /\ inbox = [p \in Procs |-> <<>>]
    /\ cacheFile = Saved(<<RecOf(PathB, 300), RecOf(PathA, 100)>>)
    /\ configFile \in InitConfigs
    /\ storage \in InitStorages
    /\ entries = NoListing
    /\ dirs = {PathA, PathB}
    /\ mtime = [q \in Paths |-> IF q = PathB THEN 300 ELSE 100]
    /\ exeOnDisk \in SUBSET ExeFiles
    /\ envSteps = 0
    /\ crashes = 0

NextExe ==
    \/ ScannerStep
    \/ Deliver(1)
    \/ \E path \in Paths : open_project(1, path)
    \/ \E x \in ExeFiles : EnvExeChange(x)

SpecExe == InitExe /\ [][NextExe]_vars

\* ------------------------------------------- startup over a stale name
\* Every process is about to start and the rendezvous name is still there,
\* left by a process of an earlier session that died.
InitStart ==
    /\ pc = [p \in Procs |-> "start"]
    /\ exitStatus = [p \in Procs |-> -1]
    /\ listeners = {}
    /\ staleName = TRUE
    /\ pending = [p \in Procs |-> <<>>]
    /\ connTo = [p \in Procs |-> 0]
    /\ shows = [p \in Procs |-> 0]
    /\ handled = [p \in Procs |-> FALSE]
    /\ ignored_folders = [p \in Procs |-> {}]
    /\ projects_data = [p \in Procs |-> <<>>]
    /\ vscode_exe = [p \in Procs |-> NoExe]
    /\ loadSeen = [p \in Procs |-> ""]
    /\ refreshed = [p \in Procs |-> FALSE]
    /\ launch = [p \in Procs |-> NoLaunch]
    /\ visible = [p \in Procs |-> FALSE]
    /\ dialogCancelled = [p \in Procs |-> FALSE]
    /\ scans = <<>>
    /\ inbox = [p \in Procs |-> <<>>]
    /\ cacheFile \in InitCaches
    /\ ignoreFile \in InitIgnoreFiles
    /\ configFile = NoConfig
    /\ storage \in InitStorages
    /\ entries = NoListing
    /\ dirs = {PathA, PathB}
    /\ mtime = [q \in Paths |-> IF q = PathB THEN 300 ELSE 100]
    /\ exeOnDisk = {ExePf}
    /\ envSteps = 0
    /\ crashes = 0

NextStart ==
    \/ \E p \in Procs : Connect(p)
    \/ \E p \in Procs : SendShow(p)
    \/ \E p \in Procs : RemoveServer(p)
    \/ \E p \in Procs : Listen(p)
    \/ \E p \in Procs : Construct(p)
    \/ \E p \in Procs : FirstScan(p)
    \/ \E p \in Procs : HandleShow(p)
    \/ ScannerStep
    \/ \E p \in Procs : Deliver(p)

SpecStart == InitStart /\ [][NextStart]_vars

\* --------------------------------------- connections to a running primary
\* The first instance runs, listens and has started its first scan; the other
\* processes are about to be launched, and foreign programs may connect.
InitConn ==
    /\ pc = [p \in Procs |-> IF p = 1 THEN "running" ELSE "start"]
    /\ exitStatus = [p \in Procs |-> -1]
    /\ listeners = {1}
    /\ staleName = FALSE
    /\ pending = [p \in Procs |-> <<>>]
    /\ connTo = [p \in Procs |-> 0]
    /\ shows = [p \in Procs |-> 0]
    /\ handled = [p \in Procs |-> FALSE]
    /\ ignoreFile = [kind |-> "missing"]
    /\ ignored_folders = [p \in Procs |-> {}]
    /\ scans = <<NewScan(1, {}, {})>>
    /\ projects_data = [p \in Procs |-> <<>>]
    /\ vscode_exe = [p \in Procs |-> NoExe]
    /\ loadSeen = [p \in Procs |-> IF p = 1 THEN "missing" ELSE ""]
    /\ refreshed = [p \in Procs |-> FALSE]
    /\ launch = [p \in Procs |-> NoLaunch]
    /\ visible = [p \in Procs |-> p = 1]
    /\ dialogCancelled = [p \in Procs |-> FALSE]
    /\ inbox = [p \in Procs |-> <<>>]
    /\ cacheFile = NoFile
    /\ configFile = NoConfig
    /\ storage \in InitStorages
    /\ entries = NoListing
    /\ dirs = {PathA, PathB}
    /\ mtime = [q \in Paths |-> IF q = PathB THEN 300 ELSE 100]
    /\ exeOnDisk = {ExePf}
    /\ envSteps = 0
    /\ crashes = 0

\* handle_connection, whatever the client sent
HandleConnection ==
    \E q \in Procs : HandleShow(q) \/ HandleSilent(q) \/ HandleForeign(q)

NextConn ==
    \/ \E p \in Procs : Connect(p)
    \/ \E p \in Procs : SendShow(p)
    \/ \E p \in Procs \ {1} : Crash(p)
    \/ \E q \in Procs : \E d \in BadTokens : ForeignConnect(q, d)
    \/ HandleConnection
    \/ ScannerStep
    \/ \E p \in Procs : Deliver(p)

\* The event loop of the primary runs every queued newConnection handler, and
\* each handler returns after at most the 1000 ms of waitForReadyRead; a second
\* launch that connected goes on to write its token.
SpecConnFair ==
    /\ InitConn
    /\ [][NextConn]_vars
    /\ WF_vars(HandleConnection)
    /\ \A p \in Procs : WF_vars(SendShow(p))

\* the scans whose run() reached the sort: their result is what is saved and emitted
Sorted(s) ==
    /\ s \in 1..Len(scans)
    /\ \/ scans[s].stage = "writing"
       \/ scans[s].stage = "emitted" /\ scans[s].wrote

NoDuplicates(seq) == \A i, j \in 1..Len(seq) : i # j => seq[i] # seq[j]

\* C4: the snapshot a scan produces has no two records with the same path and
\* every record's path was verified to be a directory during that scan, also
\* when two workspace URIs decode to the same path.
C4_NoDuplicatePathsAllDirectories ==
    \A s \in 1..Len(scans) :
        Sorted(s) =>
            /\ NoDuplicates(PathsOf(scans[s].result))
            /\ \A i \in 1..Len(scans[s].result) : scans[s].result[i].path \in scans[s].valid

\* the part of C4 the code keeps: every record is a directory seen by that scan
C4_AllDirectories ==
    \A s \in 1..Len(scans) :
        Sorted(s) =>
            \A i \in 1..Len(scans[s].result) : scans[s].result[i].path \in scans[s].valid

\* C5: the snapshot of a scan is ordered by modification time descending, and
\* records of equal modification time keep their discovery order; /a (100),
\* /b (300), /c (200), all valid, none ignored, give [/b, /c, /a].
C5_SortedByMtimeStable ==
    \A s \in 1..Len(scans) :
        Sorted(s) =>
            LET r == scans[s].result
                d == scans[s].discovered
            IN /\ Len(r) = Len(d)
               /\ \A i, j \in 1..Len(r) : i < j => r[i].mtime >= r[j].mtime
               /\ \A t \in Times :
                    SelectSeq(r, LAMBDA x : x.mtime = t) = SelectSeq(d, LAMBDA x : x.mtime = t)
               /\ ( /\ storage[1] = Listed(<<UriA, UriB, UriC>>)
                    /\ scans[s].ignored = {}
                    /\ {PathA, PathB, PathC} \subseteq dirs
                    /\ mtime = ExampleMtime )
                  => PathsOf(r) = <<PathB, PathC, PathA>>

\* a scan of three directories, two of them of equal mtime, that the sort reordered
C5_Witness ==
    \E s \in 1..Len(scans) :
        /\ Sorted(s)
        /\ Len(scans[s].result) = 3
        /\ scans[s].result # scans[s].discovered
        /\ \E i \in 1..2 :
             /\ scans[s].result[i].mtime = scans[s].result[i + 1].mtime
             /\ scans[s].result[i].path # scans[s].result[i + 1].path

\* ------------------------------------------------------ the whole program
ScansOf(p) == {s \in 1..Len(scans) : scans[s].owner = p}
LatestScan(p) == CHOOSE s \in ScansOf(p) : \A t \in ScansOf(p) : t <= s
AllDelivered(p) == \A s \in ScansOf(p) : scans[s].stage = "delivered"

\* C1: of two scans requested in order 1 then 2, whatever order they complete
\* in, the visible snapshot after both completed is the result of scan 2.
\* Stated for scans that all ran to their end without an error.
C1_LaterRequestWins ==
    \A p \in Procs :
        (/\ pc[p] = "running"
         /\ Cardinality(ScansOf(p)) >= 2
         /\ AllDelivered(p)
         /\ \A s \in ScansOf(p) : ~scans[s].failed) =>
            PathsOf(projects_data[p]) = PathsOf(scans[LatestScan(p)].result)

\* C2: at most one process at a time is Primary, listening on the rendezvous
\* name, in every interleaving of the startup steps.
C2_AtMostOnePrimary ==
    Cardinality({p \in listeners : pc[p] \in {"listening", "loaded", "running"}}) <= 1

\* C3: while a Primary is running and listening, every launch of a second
\* process causes exactly one bring-to-front on it, and that process ends
\* with exit status 0 after sending SHOW.
C3_ShowExactlyOncePerLaunch ==
    \A c \in Procs :
        /\ shows[c] <= 1
        /\ pc[c] = "exited" =>
             /\ exitStatus[c] = 0
             /\ connTo[c] \in Procs
             /\ pc[connTo[c]] \in {"listening", "loaded", "running"} =>
                  \/ handled[c] /\ shows[c] = 1
                  \/ /\ ~handled[c] /\ shows[c] = 0
                     /\ \E i \in 1..Len(pending[connTo[c]]) :
                          pending[connTo[c]][i] = [client |-> c, data |-> "SHOW"]

\* a second launch that ended with status 0 and was answered by one show_window
C3_Witness ==
    \E c \in Procs :
        /\ pc[c] = "exited" /\ exitStatus[c] = 0
        /\ handled[c] /\ shows[c] = 1
        /\ pc[connTo[c]] = "running"

\* C6: a path added to the ignore set is absent from the next scan's result even
\* if it is in the source and was in the previous snapshot; once removed from
\* the ignore set it is in the next scan's result again if it is still listed
\* and still a directory.
C6_IgnoredAbsentUnignoredBack ==
    /\ \A p \in Procs :
         (pc[p] = "running" /\ scans[LatestScan(p)].stage \in {"started", "writing", "emitted"}) =>
             scans[LatestScan(p)].ignored = ignored_folders[p]
    /\ \A s \in 1..Len(scans) :
         Sorted(s) =>
            /\ \A path \in scans[s].ignored : path \notin Range(PathsOf(scans[s].result))
            /\ \A path \in scans[s].valid \ scans[s].ignored :
                 path \in Range(PathsOf(scans[s].result))

\* a listed directory shown from the previous snapshot, newly ignored, and
\* missing from the result of the scan that followed
C6_Witness ==
    \E s \in 1..Len(scans) : \E path \in Paths :
        /\ Sorted(s)
        /\ path \in scans[s].ignored \ scans[s].prevIgnored
        /\ path \in scans[s].valid
        /\ path \in Range(PathsOf(projects_data[scans[s].owner]))
        /\ path \notin Range(PathsOf(scans[s].result))

\* the other half of C6 happens too: a path taken out of the ignore set is in
\* the result of the scan that followed
C6_RestoredReached ==
    \E s \in 1..Len(scans) : \E path \in Paths :
        /\ Sorted(s)
        /\ path \in scans[s].prevIgnored \ scans[s].ignored
        /\ path \in Range(PathsOf(scans[s].result))

\* C7: loading the cache at startup never fails; with the file missing or
\* unparsable the in-memory snapshot after the load is empty and startup goes on
\* to the first scan.
C7_LoadNeverFails ==
    \A p \in Procs :
        loadSeen[p] \in {"missing", "partial"} =>
            /\ pc[p] \in {"loaded", "running"}
            /\ pc[p] = "loaded" => projects_data[p] = <<>>

\* a process that met an unparsable cache file and went on to start its first scan
C7_Witness ==
    \E p \in Procs :
        /\ loadSeen[p] = "partial"
        /\ pc[p] = "running"
        /\ ScansOf(p) # {}

\* C8: a scan that fails leaves the cache file holding exactly the previously
\* valid snapshot.  Stated for a run in which that scan is the only one, so
\* that nothing else wrote the file: the snapshot loaded at startup is still
\* what the file holds when the failed scan has emitted.
C8_FailedScanKeepsCache ==
    (/\ Len(scans) = 1
     /\ scans[1].failed
     /\ scans[1].stage = "emitted"
     /\ loadSeen[scans[1].owner] = "snapshot") =>
        cacheFile = Saved(projects_data[scans[1].owner])

\* C9: at every point during a save the cache file holds the complete previous
\* or the complete new snapshot, never an empty or partial file.  Stated for
\* the first save of a run that found a complete snapshot in the file.
C9_SaveIsAtomic ==
    (/\ Len(scans) = 1
     /\ scans[1].stage \in {"writing", "emitted"}
     /\ loadSeen[scans[1].owner] = "snapshot") =>
        cacheFile.kind = "snapshot"

\* C10: the change test compares the ordered sequences of paths: no change for
\* a snapshot against itself, a change when two elements are swapped, and the
\* refresh happens exactly when the ordered path sequences differ.
SeqsDiffer(a, b) == Len(a) # Len(b) \/ \E i \in 1..Len(a) : a[i] # b[i]
Swap(seq, i, j) ==
    [k \in 1..Len(seq) |-> IF k = i THEN seq[j] ELSE IF k = j THEN seq[i] ELSE seq[k]]
Snapshots == {projects_data[p] : p \in Procs} \cup {scans[s].result : s \in 1..Len(scans)}

C10_ChangeTestOnSnapshots ==
    \A snap \in Snapshots :
        /\ ~PathsChanged(snap, snap)
        /\ \A i, j \in 1..Len(snap) :
             snap[i].path # snap[j].path => PathsChanged(snap, Swap(snap, i, j))

C10_RefreshStep ==
    \A p \in Procs :
        (pc[p] = "running" /\ pc'[p] = "running" /\ inbox[p] # <<>> /\ inbox'[p] = Tail(inbox[p])) =>
            LET projects == scans[Head(inbox[p])].result
                differ == SeqsDiffer(PathsOf(projects_data[p]), PathsOf(projects))
            IN /\ refreshed'[p] = differ
               /\ projects_data'[p] = IF differ THEN projects ELSE projects_data[p]

C10_RefreshIffPathsDiffer == [](C10_ChangeTestOnSnapshots) /\ [][C10_RefreshStep]_vars

\* the list loaded from the cache was [b, a]; a scan delivered the same two
\* paths in the other order and the list was replaced
C10_Witness ==
    \E p \in Procs :
        /\ loadSeen[p] = "snapshot"
        /\ refreshed[p]
        /\ PathsOf(projects_data[p]) = <<PathA, PathB>>

\* C11: after a scan result was delivered, the in-memory record of every path
\* is the record that scan produced, modification time and icon included, also
\* when the ordered list of paths did not change.  Stated for the moment the
\* only scan of a process so far has been delivered without an error.
C11_RecordsReplacedInFull ==
    \A p \in Procs :
        (/\ pc[p] = "running"
         /\ Cardinality(ScansOf(p)) = 1
         /\ AllDelivered(p)
         /\ \A s \in ScansOf(p) : ~scans[s].failed) =>
            projects_data[p] = scans[LatestScan(p)].result

\* C15: after a scan that completed without an error the cache file holds
\* exactly the snapshot that scan returned, also when no source exists and the
\* scan returns the empty snapshot.  Stated for a run with a single scan, so
\* that no other scan wrote the file.
C15_CacheHoldsReturnedSnapshot ==
    (/\ Len(scans) = 1
     /\ scans[1].stage \in {"emitted", "delivered"}
     /\ ~scans[1].failed) =>
        cacheFile = Saved(scans[1].result)

\* the part of C15 the code keeps: a scan that reached its save left its result
\* in the file
C15_SavedScanIsInCache ==
    (/\ Len(scans) = 1
     /\ scans[1].stage \in {"emitted", "delivered"}
     /\ scans[1].wrote) =>
        cacheFile = Saved(scans[1].result)

\* C16: a process whose connect to the rendezvous name succeeded never creates
\* the window, never loads or writes the cache file and never starts a scan; it
\* only writes SHOW and ends.
C16_SecondaryTouchesNothing ==
    \A p \in Procs :
        connTo[p] # 0 =>
            /\ pc[p] \in {"connected", "exited", "crashed"}
            /\ p \notin listeners
            /\ loadSeen[p] = ""
            /\ projects_data[p] = <<>>
            /\ ScansOf(p) = {}
            /\ inbox[p] = <<>>
            /\ pc[p] = "exited" =>
                 \/ pc[connTo[p]] = "crashed"
                 \/ handled[p]
                 \/ \E i \in 1..Len(pending[connTo[p]]) :
                      pending[connTo[p]][i] = [client |-> p, data |-> "SHOW"]

\* a second launch ended after it wrote SHOW while the first one, which loaded
\* the cache and scans, ran on
C16_Witness ==
    \E p \in Procs :
        /\ connTo[p] # 0
        /\ pc[p] = "exited"
        /\ pc[connTo[p]] = "running"
        /\ \E s \in ScansOf(connTo[p]) : scans[s].wrote

\* C19: the cache file has a single writer: two writes of the file are never
\* in progress at once, also when a rescan was requested while an earlier scan
\* of the same process still runs and both reach their save.
C19_SingleWriter ==
    \A p \in Procs :
        Cardinality({s \in ScansOf(p) : scans[s].stage = "writing"}) <= 1

\* C20: at engine start the cache is loaded into the in-memory snapshot before
\* the first scan is launched: the load happens while the process has no scan,
\* so it cannot see a write by its scan, and the snapshot in memory stays the
\* loaded one until a scan result is delivered and compared against it.
C20_LoadedBeforeScanExists ==
    \A p \in Procs :
        (ScansOf(p) # {} /\ pc[p] # "crashed") => loadSeen[p] # ""

C20_StartupStep ==
    \A p \in Procs :
        /\ (loadSeen[p] = "" /\ loadSeen'[p] # "") =>
              /\ ScansOf(p) = {}
              /\ scans' = scans
              /\ cacheFile' = cacheFile
              /\ projects_data'[p] = IF cacheFile.kind = "snapshot" THEN cacheFile.data ELSE <<>>
        /\ (ScansOf(p) = {} /\ \E s \in 1..Len(scans') : scans'[s].owner = p) =>
              /\ loadSeen[p] # ""
              /\ projects_data'[p] = projects_data[p]
        /\ projects_data'[p] # projects_data[p] =>
              \/ loadSeen[p] = ""
              \/ pc'[p] = "crashed"
              \/ inbox[p] # <<>> /\ inbox'[p] = Tail(inbox[p])

CachedExeExists(cfg, disk) ==
    cfg.kind = "config" /\ cfg.vscode_path # NoExe /\ cfg.vscode_path \in disk
InstalledAt(disk) == {i \in 1..Len(possible_paths) : possible_paths[i] \in disk}
NothingResolvable(cfg, disk) ==
    ~CachedExeExists(cfg, disk) /\ InstalledAt(disk) = {} /\ WhereOut \notin disk

\* the order of the lookup, stated on its inputs and outputs
ResolutionOrder(cfg, disk, path, cfgAfter) ==
    \/ /\ CachedExeExists(cfg, disk)
       /\ path = cfg.vscode_path /\ cfgAfter = cfg
    \/ /\ ~CachedExeExists(cfg, disk) /\ InstalledAt(disk) # {}
       /\ \E i \in InstalledAt(disk) :
            /\ \A j \in InstalledAt(disk) : i <= j
            /\ path = possible_paths[i]
       /\ cfgAfter = Config(path)
    \/ /\ ~CachedExeExists(cfg, disk) /\ InstalledAt(disk) = {} /\ WhereOut \in disk
       /\ path = WhereOut /\ cfgAfter = Config(path)
    \/ /\ NothingResolvable(cfg, disk)
       /\ path = NoExe /\ cfgAfter = cfg

\* C12: resolving the executable returns the cached path if it still exists,
\* else the first existing install location, else the result of the command
\* lookup if it exists; a path found by the second or third step is written to
\* the config; when nothing is found the result is the not-found value and the
\* config is unchanged.  Stated for every step that resolves: a scan leaving
\* its start, and an open_project that holds no executable.
C12_ResolveStep ==
    /\ \A s \in 1..Len(scans) :
          (scans[s].stage = "started" /\ scans'[s].stage \in {"writing", "emitted"}) =>
              ResolutionOrder(configFile, exeOnDisk, scans'[s].exe, configFile')
    /\ \A p \in Procs :
          (pc[p] = "running" /\ vscode_exe[p] = NoExe /\ launch'[p] # launch[p]
              /\ launch'[p].outcome # "none") =>
              ResolutionOrder(configFile, exeOnDisk, vscode_exe'[p], configFile')

C12_ResolutionOrder == [][C12_ResolveStep]_vars

\* the config named an existing file and an install location existed as well
\* from the start: the scan took the path of the config
C12_Witness ==
    \E s \in 1..Len(scans) :
        /\ scans[s].stage \in {"writing", "emitted"}
        /\ scans[s].exe = ExeOnPath
        /\ configFile = Config(ExeOnPath)
        /\ ExeLocal \in exeOnDisk
        /\ envSteps = 0

\* the third step happened too: no install location exists, the command lookup
\* found the executable and its path was written to the config
C12_LookupReached ==
    \E s \in 1..Len(scans) :
        /\ scans[s].stage \in {"writing", "emitted"}
        /\ scans[s].exe = ExeOnPath
        /\ configFile = Config(ExeOnPath)
        /\ exeOnDisk = {ExeOnPath}
        /\ envSteps = 1

\* C13: the executable path is checked to exist before each use: no
\* open_project hands a path that does not exist to the spawn; a resolved path
\* that is gone is invalidated and looked up again.
C13_ExeRevalidatedBeforeUse ==
    \A p \in Procs : launch[p].outcome # "failed"

\* C14: a scan during which the executable cannot be resolved still completes
\* and delivers its snapshot with the not-found value, and no error is
\* surfaced by a scan or by its delivery; "not found" is surfaced only by an
\* open_project for which the lookup still finds nothing, and then nothing is
\* spawned.
C14_NotFoundSpawnsNothing ==
    \A p \in Procs :
        launch[p].outcome = "notfound" => launch[p].exe = NoExe

C14_Step ==
    /\ \A s \in 1..Len(scans) :
          (scans[s].stage = "started" /\ scans'[s].stage # "started"
              /\ NothingResolvable(configFile, exeOnDisk)) =>
              /\ scans'[s].exe = NoExe
              /\ scans'[s].stage \in {"writing", "emitted"}
              /\ StoragePath(storage) = 0 =>
                    ~scans'[s].failed /\ scans'[s].result = <<>>
              /\ launch' = launch
    /\ \A p \in Procs :
          /\ (inbox[p] # <<>> /\ inbox'[p] = Tail(inbox[p]) /\ scans[Head(inbox[p])].exe = NoExe) =>
                /\ vscode_exe'[p] = NoExe
                /\ launch' = launch
                /\ PathsOf(projects_data'[p]) = PathsOf(scans[Head(inbox[p])].result)
          /\ launch'[p] # launch[p] => scans' = scans /\ inbox' = inbox
          /\ (launch'[p] # launch[p] /\ launch'[p].outcome = "notfound") =>
                /\ vscode_exe[p] = NoExe /\ NothingResolvable(configFile, exeOnDisk)
                /\ vscode_exe'[p] = NoExe /\ configFile' = configFile

C14_NotFoundOnlyAtLaunch == [](C14_NotFoundSpawnsNothing) /\ [][C14_Step]_vars

\* a scan that resolved no executable saved and delivered its two projects,
\* and the open_project that followed reported "not found"
C14_Witness ==
    \E p \in Procs : \E s \in ScansOf(p) :
        /\ scans[s].stage = "delivered"
        /\ scans[s].wrote /\ ~scans[s].failed
        /\ Len(scans[s].result) = 2
        /\ vscode_exe[p] = NoExe
        /\ launch[p].outcome = "notfound"
        /\ envSteps = 0

\* C17: a process whose connect fails while a stale name left by a dead
\* process exists removes the name and becomes Primary, listening under the
\* name, so that a later launch connects to it and acts as Secondary.
C17_PrimaryListens ==
    \A p \in Procs :
        /\ pc[p] \in {"cleaned", "listening", "loaded", "running"} => ~staleName
        /\ pc[p] \in {"listening", "loaded", "running"} => p \in listeners

C17_StartupStep ==
    \A q \in Procs :
        /\ (pc[q] = "start" /\ pc'[q] # "start") =>
              IF listeners # {}
              THEN pc'[q] = "connected" /\ connTo'[q] \in listeners
              ELSE pc'[q] = "noserver"
        /\ (pc[q] = "noserver" /\ pc'[q] # "noserver") =>
              pc'[q] = "cleaned" /\ ~staleName'

C18_BadTokenStep ==
    \A q \in Procs :
        (/\ pending[q] # <<>>
         /\ Head(pending[q]).data # "SHOW"
         /\ pending'[q] = Tail(pending[q])
         /\ pc'[q] = "running") =>
            scans' = scans /\ shows' = shows

C18_BadClientHandled ==
    \A q \in Procs :
        (\E i \in 1..Len(pending[q]) : pending[q][i].client = Foreign)
            ~> (\A i \in 1..Len(pending[q]) : pending[q][i].client # Foreign)

C18_LaterConnectionsHandled ==
    \A c \in Procs :
        (pc[c] = "exited" /\ ~handled[c]) ~> (handled[c] /\ shows[c] = 1)

IconAsSpecified(icon) ==
    LET files == entries.files
        has(n) == \E k \in 1..Len(files) : Lower(files[k]) = n
        named == {i \in 1..Len(CommonNames) : has(CommonNames[i])}
        ico(k) == EndsWith(Lower(files[k]), IcoSuffix)
        scanned == {k \in 1..Len(files) : k <= IconScanLimit}
    IN /\ named # {} =>
            \E i \in named : /\ \A j \in named : i <= j
                              /\ icon = JoinPath(PathX, CommonNames[i])
       /\ (named = {} /\ entries.ok /\ \E k \in scanned : ico(k)) =>
            \E k \in scanned : /\ ico(k)
                                /\ \A j \in 1..(k - 1) : ~ico(j)
                                /\ icon = JoinPath(PathX, files[k])
       /\ (named = {} /\ (~entries.ok \/ \A k \in scanned : ~ico(k))) => icon = None
       /\ named = {} =>
            \A k \in 1..Len(files) : k > IconScanLimit => icon # JoinPath(PathX, files[k])

C22_IconSearchOrder ==
    \A s \in 1..Len(scans) : \A i \in 1..Len(scans[s].result) :
        scans[s].result[i].path = PathX => IconAsSpecified(scans[s].result[i].icon)

\* the only icon file of the directory is its 51st entry and the scan saved
\* the record of the directory without an icon
C22_Witness ==
    \E s \in 1..Len(scans) : \E i \in 1..Len(scans[s].result) :
        /\ scans[s].wrote
        /\ scans[s].result[i].path = PathX
        /\ scans[s].result[i].icon = None
        /\ Len(entries.files) = IconScanLimit + 1
        /\ entries.files[IconScanLimit + 1] = IcoLate

\* the other cases happen too: a name of the priority list wins over an
\* earlier entry with the extension, and the 50th entry is still scanned
C22_NamedReached ==
    \E s \in 1..Len(scans) : \E i \in 1..Len(scans[s].result) :
        /\ scans[s].result[i].icon = JoinPath(PathX, CommonNames[3])
        /\ entries.files = <<CommonNames[4], IcoZ, CommonNames[3]>>

C22_FiftiethReached ==
    \E s \in 1..Len(scans) : \E i \in 1..Len(scans[s].result) :
        /\ scans[s].result[i].icon = JoinPath(PathX, IcoLate)
        /\ Len(entries.files) = IconScanLimit

\* ------------------------------------ a failed scan and the visible snapshot
\* C24: a scan that ends in an error or finds no source file delivers an empty
\* result without writing the cache: a non-empty visible snapshot is replaced
\* by the empty one while the cache file still holds the earlier snapshot.
\* Stated for a run in which that scan is the only one and the process had
\* loaded the snapshot at startup.
C24_Case ==
    /\ Len(scans) = 1
    /\ scans[1].stage = "delivered"
    /\ ~scans[1].wrote
    /\ pc[scans[1].owner] = "running"
    /\ loadSeen[scans[1].owner] = "snapshot"

C24_EmptyShownCacheKept ==
    C24_Case =>
        /\ projects_data[scans[1].owner] = <<>>
        /\ cacheFile = Saved(<<RecOf(PathB, 300), RecOf(PathA, 100)>>)

\* what does hold: the visible snapshot is emptied, and the file holds the
\* earlier snapshot unless the scan had opened it for writing
C24_EmptyShown ==
    C24_Case =>
        /\ projects_data[scans[1].owner] = <<>>
        /\ cacheFile \in {Saved(<<RecOf(PathB, 300), RecOf(PathA, 100)>>), Truncated}

C24_CaseReached == C24_Case /\ cacheFile # Truncated

\* ------------------------------------------------ the life of the primary
\* C21: the Primary keeps the rendezvous name and keeps answering SHOW for the
\* whole life of the process: closing the window or launching a project only
\* hides the window, only the quit command ends the process and releases the
\* name, and scans starting or finishing never stop the listener.
C21_ListensWhileRunning ==
    \A p \in Procs : pc[p] = "running" => p \in listeners

C21_Step ==
    \A p \in Procs :
        \* a step that hides the window leaves the process and its listener alone
        /\ (visible[p] /\ ~visible'[p]) =>
              /\ pc'[p] = "running"
              /\ p \in listeners'
              /\ pending'[p] = pending[p]
        \* so does every launch of a project
        /\ launch'[p] # launch[p] => (pc'[p] = "running" /\ p \in listeners')
        \* the name is released only by the step that ends the process
        /\ (p \in listeners /\ p \notin listeners') => (pc[p] = "running" /\ pc'[p] = "quit")
        /\ (pc[p] = "running" /\ pc'[p] # "running") =>
              /\ pc'[p] = "quit"
              /\ exitStatus'[p] = 0
              /\ p \notin listeners'
        \* a scan that starts, advances or is delivered keeps the listener
        /\ ((scans' # scans \/ inbox' # inbox) /\ pc'[p] = "running") => p \in listeners'

\* a second launch that sent SHOW is answered unless the Primary was told to quit
C21_ShowAnswered ==
    \A c \in Procs :
        (pc[c] = "exited" /\ ~handled[c])
            ~> \/ handled[c] /\ shows[c] = 1
               \/ connTo[c] \in Procs /\ pc[connTo[c]] = "quit"
               \/ ~CanStartScan

C21_ListensForLife ==
    /\ [](C21_ListensWhileRunning)
    /\ [][C21_Step]_vars
    /\ C21_ShowAnswered

\* a project was launched, which hid the window, and the SHOW of a later
\* launch was answered by the same process, which shows its window again
C21_Witness ==
    \E c \in Procs :
        /\ pc[1] = "running"
        /\ launch[1].outcome = "spawned"
        /\ pc[c] = "exited" /\ connTo[c] = 1
        /\ handled[c] /\ shows[c] = 1
        /\ visible[1]

\* the quit command released the name and the next launch became Primary
C21_QuitReached ==
    \E p, q \in Procs : pc[p] = "quit" /\ pc[q] = "running" /\ listeners = {q}

\* ------------------------------------------------------- bring-to-front
\* C23: every bring-to-front of the Primary (a SHOW token from a second
\* launch, or the tray show action) starts a new scan with the current ignore
\* set, whether or not an earlier scan is still in flight.
C23_Step ==
    \A p \in Procs :
        LET answered == /\ pc[p] = "running"
                        /\ pending[p] # <<>>
                        /\ Head(pending[p]).data = "SHOW"
                        /\ pending'[p] = Tail(pending[p])
                        /\ pc'[p] = "running"
            raised == pc[p] = "running" /\ ~visible[p] /\ visible'[p]
        IN (answered \/ raised) =>
              /\ visible'[p]
              /\ Len(scans') = Len(scans) + 1
              /\ SubSeq(scans', 1, Len(scans)) = scans
              /\ scans'[Len(scans')].owner = p
              /\ scans'[Len(scans')].stage = "started"
              /\ scans'[Len(scans')].ignored = ignored_folders[p]
              /\ ignored_folders'[p] = ignored_folders[p]

C23_ShowStartsScan == [][C23_Step]_vars

\* the window was hidden, and a SHOW was answered while the first scan of the
\* process was still running: both scans are in flight, with the ignore set
C23_Witness ==
    \E c \in Procs :
        /\ shows[c] = 1 /\ connTo[c] = 1
        /\ launch[1].outcome = "spawned"
        /\ visible[1]
        /\ Len(scans) = 2
        /\ scans[1].owner = 1 /\ scans[1].stage \in {"started", "writing"}
        /\ scans[2].owner = 1 /\ scans[2].stage = "started"
        /\ scans[2].ignored = {PathA}

\* the tray action started a scan after the earlier one was delivered
C23_TrayAfterDelivery ==
    /\ \A c \in Procs : shows[c] = 0
    /\ Len(scans) = 2
    /\ scans[1].stage = "delivered"
    /\ scans[2].owner = 1 /\ scans[2].stage = "started"

\* ------------------------------------------------------ the ignore set
\* C25: a scan filters with the ignore set it was given when it was requested;
\* accepting a new ignore set replaces the engine's set, persists it and starts
\* a new scan with the new set, and does not change the set used by a scan
\* already in flight; cancelling the ignore dialog leaves the ignore set, the
\* ignore file and the set of running scans unchanged.
InFlight(scan) == scan.stage \in {"started", "writing"}

C25_FiltersWithOwnSet ==
    \A s \in 1..Len(scans) :
        (scans[s].stage = "writing" \/ (scans[s].stage = "emitted" /\ scans[s].wrote)) =>
            Range(PathsOf(scans[s].result)) = scans[s].valid \ scans[s].ignored

C25_Step ==
    \A p \in Procs :
        \* no step changes the set of a scan that was requested earlier
        /\ \A s \in 1..Len(scans) :
              InFlight(scans[s]) => (s <= Len(scans') /\ scans'[s].ignored = scans[s].ignored)
        \* the accepted dialog
        /\ (\/ ignored_folders'[p] # ignored_folders[p]
            \/ Len(scans') > Len(scans) /\ scans'[Len(scans')].owner = p) =>
              /\ ignoreFile' = [kind |-> "list", paths |-> ignored_folders'[p]]
              /\ Len(scans') = Len(scans) + 1
              /\ scans'[Len(scans')].owner = p
              /\ scans'[Len(scans')].stage = "started"
              /\ scans'[Len(scans')].ignored = ignored_folders'[p]
        \* the cancelled dialog
        /\ (~dialogCancelled[p] /\ dialogCancelled'[p]) =>
              /\ ignored_folders' = ignored_folders
              /\ ignoreFile' = ignoreFile
              /\ scans' = scans

C25_ScanKeepsItsIgnoreSet == [](C25_FiltersWithOwnSet) /\ [][C25_Step]_vars

\* the dialog was accepted with a added to the ignore set while the first scan
\* was in flight: that scan kept the old set and collected a, the new scan
\* carries the new set, which is also in the engine and in the file
C25_Witness ==
    /\ Len(scans) = 2
    /\ scans[1].stage = "writing"
    /\ scans[1].ignored = {}
    /\ PathA \in Range(PathsOf(scans[1].result))
    /\ scans[2].ignored = {PathA}
    /\ ignored_folders[1] = {PathA}
    /\ ignoreFile = [kind |-> "list", paths |-> {PathA}]

\* the dialog was cancelled while the first scan was in flight
C25_CancelReached ==
    /\ dialogCancelled[1]
    /\ Len(scans) = 1
    /\ InFlight(scans[1])
    /\ ignoreFile = [kind |-> "missing"]

====
